---------------------------- MODULE Spec2Model ----------------------------
(***************************************************************************)
(* A model of clef_evaluation.py, the report generator of the CLEF-HIPE   *)
(* scorer: main() parses the stratification arguments, get_results()      *)
(* evaluates every stratum combination with the Evaluator collaborator,   *)
(* flattens the result bundles into rows and writes a TSV and a JSON file. *)
(*                                                                         *)
(* Representation.                                                         *)
(*  - Python's None, the empty string and an argument that was not given   *)
(*    are the empty sequence <<>>: all three are falsy, and the code only  *)
(*    ever tests them for truth.                                           *)
(*  - A comma separated argument is a sequence of items and an item is the *)
(*    sequence of its dash separated parts, so str.split is structural;    *)
(*    float(), int() and datetime.strptime() are tables over the parts.    *)
(*  - A file name is a sequence of chunks in which the text ".tsv" only    *)
(*    occurs as a whole chunk; Join gives the name as a string.            *)
(*  - A value held by a bundle or a row is a tagged record (PyStr, PyInt,  *)
(*    PyFloat, Empty).  A PyFloat holds its value in units of 10^-4.       *)
(***************************************************************************)
EXTENDS Integers, Sequences, FiniteSets, TLC

None == <<>>

PyStr(s) == [t |-> "str", s |-> s]
PyInt(n) == [t |-> "int", v |-> n]
PyFloat(n) == [t |-> "float", v |-> n]
Empty == [t |-> "none"]

Ok(v) == [ok |-> TRUE, v |-> v]
Raise(e) == [ok |-> FALSE, err |-> e]

RECURSIVE Join(_)
Join(chunks) ==
    IF chunks = <<>> THEN "" ELSE Head(chunks) \o Join(Tail(chunks))

RECURSIVE Flatten(_)
Flatten(seqs) ==
    IF seqs = <<>> THEN <<>> ELSE Head(seqs) \o Flatten(Tail(seqs))

(***************************************************************************)
(* Module constants.                                                       *)
(***************************************************************************)
FINE_COLUMNS == {"NE-FINE-LIT", "NE-FINE-METO", "NE-FINE-COMP", "NE-NESTED"}
COARSE_COLUMNS == {"NE-COARSE-LIT", "NE-COARSE-METO"}
NEL_COLUMNS == <<"NEL-LIT", "NEL-METO">>

\* sorted() on the keys the program sorts: the keys in Python's string order.
LexOrder ==
    << "ALL", "NE-COARSE-LIT", "NE-COARSE-METO", "NE-FINE-COMP", "NE-FINE-LIT",
       "NE-FINE-METO", "NE-NESTED", "NEL-LIT", "NEL-METO", "NIL", "Q1",
       "loc", "pers" >>

sorted(S) == SelectSeq(LexOrder, LAMBDA k : k \in S)

(***************************************************************************)
(* Conversions of main(): float(), int(), datetime.strptime() and the      *)
(* formatting of their results in the labels.                              *)
(***************************************************************************)
\* float(text): the value in tenths.
float(text) ==
    CASE text = "0.0" -> Ok(0)
      [] text \in {"0.1", "0.10"} -> Ok(1)
      [] text = "0.5" -> Ok(5)
      [] text = "1.0" -> Ok(10)
      [] OTHER -> Raise("ValueError")

\* f"{x}" of a float given in tenths.
FormatFloat(x) ==
    CASE x = 0 -> "0.0"
      [] x = 1 -> "0.1"
      [] x = 5 -> "0.5"
      [] x = 10 -> "1.0"

int(text) ==
    CASE text = "1" -> Ok(1)
      [] text = "3" -> Ok(3)
      [] OTHER -> Raise("ValueError")

FormatInt(n) ==
    CASE n = 1 -> "1"
      [] n = 3 -> "3"

Date(y, m, d) == [year |-> y, month |-> m, day |-> d]

\* datetime.strptime(text, "%Y")
strptimeYear(text) ==
    CASE text = "1900" -> Ok(Date(1900, 1, 1))
      [] text = "1950" -> Ok(Date(1950, 1, 1))
      [] text = "2000" -> Ok(Date(2000, 1, 1))
      [] OTHER -> Raise("ValueError")

\* datetime.strptime(text, "%Y/%m/%d")
strptimeDate(text) ==
    CASE text = "1900/01/01" -> Ok(Date(1900, 1, 1))
      [] text = "1900/06/30" -> Ok(Date(1900, 6, 30))
      [] text = "1900/07/01" -> Ok(Date(1900, 7, 1))
      [] text = "1900/12/31" -> Ok(Date(1900, 12, 31))
      [] OTHER -> Raise("ValueError")

\* date.strftime("%Y")
strftimeYear(date) ==
    CASE date.year = 1900 -> "1900"
      [] date.year = 1950 -> "1950"
      [] date.year = 2000 -> "2000"

(***************************************************************************)
(* The stratum labels.                                                     *)
(***************************************************************************)
define_noise_label(noise_level) ==
    IF noise_level # None
    THEN "LED-" \o FormatFloat(noise_level[1]) \o "-" \o FormatFloat(noise_level[2])
    ELSE "LED-ALL"

\* Both branches of the day/month test format the dates with "%Y".
define_time_label(time_period) ==
    IF time_period # None
    THEN "TIME-" \o strftimeYear(time_period[1]) \o "-" \o strftimeYear(time_period[2])
    ELSE "TIME-ALL"

(***************************************************************************)
(* check_validity_of_arguments and the argument parsing of main().         *)
(***************************************************************************)
check_validity_of_arguments(args) ==
    IF args.task # "nel" /\ (args.union \/ args.n_best # None)
    THEN Raise("AssertionError")
    ELSE IF args.union /\ args.n_best # None
         THEN Raise("AssertionError")
         ELSE Ok(TRUE)

\* A list comprehension over calls that may raise: the list of the values,
\* or the first error.
Comprehension(results) ==
    LET failed == {i \in 1..Len(results) : ~results[i].ok}
    IN  IF failed = {}
        THEN Ok([i \in 1..Len(results) |-> results[i].v])
        ELSE results[CHOOSE i \in failed : \A j \in failed : i <= j]

\* [int(n) for n in args.n_best.split(",")], or [1]
ParseNBest(n_best) ==
    IF n_best = None
    THEN Ok(<<1>>)
    ELSE Comprehension([i \in 1..Len(n_best) |-> int(n_best[i])])

\* tuple([float(lower), float(upper)]) for lower, upper in ...
NoiseBand(level) ==
    IF Len(level) # 2
    THEN Raise("ValueError")
    ELSE LET lower == float(level[1])
             upper == float(level[2])
         IN  IF ~lower.ok THEN lower
             ELSE IF ~upper.ok THEN upper
             ELSE Ok(<<lower.v, upper.v>>)

\* A parse that leaves out the unfiltered stratum.
ParseNoiseLevelsUnprepended(noise_level) ==
    IF noise_level # None
    THEN Comprehension([i \in 1..Len(noise_level) |-> NoiseBand(noise_level[i])])
    ELSE Ok(<<None>>)

ParseNoiseLevels(noise_level) ==
    IF noise_level # None
    THEN LET bands == Comprehension([i \in 1..Len(noise_level) |-> NoiseBand(noise_level[i])])
         IN  IF bands.ok THEN Ok(<<None>> \o bands.v) ELSE bands
    ELSE Ok(<<None>>)

\* (strptime(period[0], "%Y"), strptime(period[1], "%Y"))
YearPeriod(period) ==
    LET start == strptimeYear(period[1])
    IN  IF ~start.ok THEN start
        ELSE IF Len(period) < 2 THEN Raise("IndexError")
        ELSE LET end == strptimeYear(period[2])
             IN  IF ~end.ok THEN end ELSE Ok(<<start.v, end.v>>)

\* (strptime(period[0], "%Y/%m/%d"), strptime(period[1], "%Y/%m/%d"))
DatePeriod(period) ==
    LET start == strptimeDate(period[1])
    IN  IF ~start.ok THEN start
        ELSE IF Len(period) < 2 THEN Raise("IndexError")
        ELSE LET end == strptimeDate(period[2])
             IN  IF ~end.ok THEN end ELSE Ok(<<start.v, end.v>>)

ParseTimePeriods(time_period) ==
    IF time_period # None
    THEN LET years == Comprehension([i \in 1..Len(time_period) |-> YearPeriod(time_period[i])])
             dates == Comprehension([i \in 1..Len(time_period) |-> DatePeriod(time_period[i])])
         IN  IF years.ok THEN Ok(<<None>> \o years.v)
             ELSE IF years.err # "ValueError" THEN years
             ELSE IF dates.ok THEN Ok(<<None>> \o dates.v)
             ELSE dates
    ELSE Ok(<<None>>)

\* A product whose first axis runs fastest.
Product2FirstFastest(xs, ys) ==
    Flatten([j \in 1..Len(ys) |-> [i \in 1..Len(xs) |-> <<xs[i], ys[j]>>]])

\* itertools.product over two and over three lists, last axis fastest.
Product2(xs, ys) ==
    Flatten([i \in 1..Len(xs) |-> [j \in 1..Len(ys) |-> <<xs[i], ys[j]>>]])

Product3(ns, xs, ys) ==
    Flatten([i \in 1..Len(ns) |->
        [j \in 1..Len(Product2(xs, ys)) |-> <<ns[i]>> \o Product2(xs, ys)[j]]])

(***************************************************************************)
(* The matching collaborator, Evaluator.evaluate.  It is an input of the   *)
(* program: a profile says whether a call raises and whether the bundles   *)
(* have an empty or an absent metric; the values of a bundle depend on the *)
(* column, the tag, the regime and the stratum, and the counts of the tags *)
(* overlap, so that they do not add up to the counts of the column.        *)
(***************************************************************************)
MaxRaiseAt == 2

Profiles ==
    {[raiseAt |-> 0, gap |-> g] : g \in {"full", "empty", "absent"}}
        \cup {[raiseAt |-> k, gap |-> "full"] : k \in 1..MaxRaiseAt}

MetricKeys ==
    {"P_micro", "R_micro", "F1_micro", "P_macro_doc", "R_macro_doc",
     "F1_macro_doc", "P_macro_doc_std", "R_macro_doc_std", "F1_macro_doc_std",
     "TP", "FP", "FN"}

\* The (tag, regime, metric) places a profile with a gap leaves empty or out.
GapPlaces ==
    {<<"pers", "strict", "F1_macro_doc_std">>, <<"loc", "ent_type", "P_micro">>,
     <<"ALL", "ent_type", "R_macro_doc">>, <<"ALL", "strict", "FN">>}

EntityTags(eval_type) == IF eval_type = "nerc" THEN {"loc", "pers"} ELSE {"NIL", "Q1"}

KeyCode(key) == CHOOSE i \in 1..Len(LexOrder) : LexOrder[i] = key

StratumCode(n, noise_level, time_period) ==
    n + (IF noise_level = None THEN 0
         ELSE 10 * (1 + noise_level[1] + noise_level[2]))
      + (IF time_period = None THEN 0
         ELSE 200 * (time_period[1].month + time_period[2].year - 1900))

MetricCode(key) ==
    CASE key \in {"P_micro", "TP"} -> 1
      [] key \in {"R_micro", "FP"} -> 2
      [] key \in {"F1_micro", "FN"} -> 3
      [] key = "P_macro_doc" -> 4
      [] key = "R_macro_doc" -> 5
      [] key = "F1_macro_doc" -> 6
      [] key = "P_macro_doc_std" -> 7
      [] key = "R_macro_doc_std" -> 8
      [] key = "F1_macro_doc_std" -> 9

MetricValue(col, tag, regime, key, code) ==
    LET seed == 131 * KeyCode(col) + 17 * code + 7 * KeyCode(tag)
                    + 1009 * MetricCode(key) + (IF regime = "strict" THEN 3 ELSE 0)
    IN  IF key \in {"TP", "FP", "FN"}
        THEN PyInt((IF tag = "ALL" THEN 5 ELSE 4) + (seed % 7))
        ELSE PyFloat(seed % 10001)

Cell(profile, col, tag, regime, code) ==
    LET gaps == {g[3] : g \in {h \in GapPlaces : h[1] = tag /\ h[2] = regime}}
        keys == IF profile.gap = "absent" THEN MetricKeys \ gaps ELSE MetricKeys
    IN  [key \in keys |->
            IF profile.gap = "empty" /\ key \in gaps
            THEN Empty
            ELSE MetricValue(col, tag, regime, key, code)]

Bundle(profile, col, tag, code) ==
    [regime \in {"ent_type", "strict"} |-> Cell(profile, col, tag, regime, code)]

\* evaluator.evaluate(col, ...) -> (global, per tag)
Evaluate(profile, col, eval_type, n_best, noise_level, time_period) ==
    LET code == StratumCode(n_best, noise_level, time_period)
    IN  [global |-> Bundle(profile, col, "ALL", code),
         per_tag |-> [tag \in EntityTags(eval_type) |-> Bundle(profile, col, tag, code)]]

(***************************************************************************)
(* evaluation_wrapper.  cols is the set of columns of the call; nested     *)
(* says that the call passed [NEL_COLUMNS], whose one element is a list:   *)
(* evaluate is called with it, and storing the result under a list key     *)
(* raises TypeError.  call is the number of this call of the wrapper.      *)
(***************************************************************************)
\* The sum of a count over the entity tags of a per-tag map.
RECURSIVE TagSum(_, _, _, _)
TagSum(tags, per_tag, regime, fig) ==
    IF tags = {}
    THEN 0
    ELSE LET tag == CHOOSE t \in tags : TRUE
         IN  per_tag[tag][regime][fig].v + TagSum(tags \ {tag}, per_tag, regime, fig)

\* A wrapper that derives the TP and FP of ALL by adding up the tags.
evaluation_wrapper_summing(profile, cols, nested, eval_type, n_best, noise_level, time_period, call) ==
    IF profile.raiseAt = call
    THEN Raise("CollaboratorError")
    ELSE IF nested
    THEN Raise("TypeError")
    ELSE Ok([col \in cols |->
            LET res == Evaluate(profile, col, eval_type, n_best, noise_level, time_period)
            IN  [tag \in DOMAIN res.per_tag \cup {"ALL"} |->
                    IF tag = "ALL"
                    THEN [regime \in DOMAIN res.global |->
                            [key \in DOMAIN res.global[regime] |->
                                IF key \in {"TP", "FP"}
                                THEN PyInt(TagSum(DOMAIN res.per_tag, res.per_tag, regime, key))
                                ELSE res.global[regime][key]]]
                    ELSE res.per_tag[tag]]])

evaluation_wrapper(profile, cols, nested, eval_type, n_best, noise_level, time_period, call) ==
    IF profile.raiseAt = call
    THEN Raise("CollaboratorError")
    ELSE IF nested
    THEN Raise("TypeError")
    ELSE Ok([col \in cols |->
            LET res == Evaluate(profile, col, eval_type, n_best, noise_level, time_period)
            IN  [tag \in DOMAIN res.per_tag \cup {"ALL"} |->
                    IF tag = "ALL" THEN res.global ELSE res.per_tag[tag]]])

(***************************************************************************)
(* assemble_tsv_output.                                                    *)
(***************************************************************************)
fieldnames_ ==
    <<"System", "Evaluation", "Label", "P", "R", "F1", "F1_std", "P_std",
      "R_std", "TP", "FP", "FN">>

metrics == <<"P", "R", "F1">>
figures == <<"TP", "FP", "FN">>
aggregations == <<"micro", "macro_doc">>

\* round(fig, 3); a tie goes to the even neighbour.
round3(fig) ==
    CASE fig.t = "float" ->
            LET q == fig.v \div 10
                r == fig.v % 10
            IN  Ok(PyFloat(IF r < 5 \/ (r = 5 /\ q % 2 = 0) THEN 10 * q ELSE 10 * (q + 1)))
      [] fig.t = "int" -> Ok(fig)
      [] OTHER -> Raise("TypeError")

\* A rounding loop that fills an empty value with a zero.
RoundOrZero(fig) ==
    IF round3(fig).ok THEN round3(fig).v ELSE IF fig = Empty THEN PyFloat(0) ELSE fig

\* try: results[metric] = round(fig, 3) except TypeError: pass
RoundOrKeep(fig) == IF round3(fig).ok THEN round3(fig).v ELSE fig

\* The fields a row collects from the bundle, with the key of each.
Collected(aggr) ==
    LET pairs ==
            {<<metrics[i], metrics[i] \o "_" \o aggr>> : i \in 1..3}
            \cup (IF aggr = "micro"
                  THEN {<<figures[i], figures[i]>> : i \in 1..3}
                  ELSE {})
            \cup (IF aggr = "macro_doc"   \* "macro" in aggr
                  THEN {<<metrics[i] \o "_std", metrics[i] \o "_" \o aggr \o "_std">> :
                            i \in 1..3}
                  ELSE {})
    IN  [f \in {p[1] : p \in pairs} |-> (CHOOSE p \in pairs : p[1] = f)[2]]

\* One row: KeyError when the bundle lacks a key the row reads.
Row(submission, eval_regime, tag, cell, aggr) ==
    LET keys == Collected(aggr)
    IN  IF \E f \in DOMAIN keys : keys[f] \notin DOMAIN cell
        THEN Raise("KeyError")
        ELSE Ok([f \in {"System", "Evaluation", "Label"} \cup DOMAIN keys |->
                RoundOrKeep(CASE f = "System" -> PyStr(submission)
                              [] f = "Evaluation" -> PyStr(eval_regime)
                              [] f = "Label" -> PyStr(tag)
                              [] OTHER -> cell[keys[f]])])

assemble_tsv_output(submission, eval_stats, regimes, only_aggregated, suffix) ==
    LET sfx == IF suffix # "" THEN "-" \o suffix ELSE suffix
        cols == sorted(DOMAIN eval_stats)
        Tags(col) == SelectSeq(sorted(DOMAIN eval_stats[col]),
                               LAMBDA tag : ~(only_aggregated /\ tag # "ALL"))
        Group(col, aggr, regime) ==
            [t \in 1..Len(Tags(col)) |->
                Row(submission, col \o "-" \o aggr \o "-" \o regime \o sfx,
                    Tags(col)[t],
                    eval_stats[col][Tags(col)[t]]
                        [IF regime = "fuzzy" THEN "ent_type" ELSE regime],
                    aggr)]
        results ==
            Flatten([c \in 1..Len(cols) |->
                Flatten([a \in 1..Len(aggregations) |->
                    Flatten([r \in 1..Len(regimes) |->
                        Group(cols[c], aggregations[a], regimes[r])])])])
    IN  IF \E i \in 1..Len(results) : ~results[i].ok
        THEN Raise("KeyError")
        ELSE Ok([fieldnames |-> fieldnames_,
                 rows |-> [i \in 1..Len(results) |-> results[i].v]])

(***************************************************************************)
(* enforce_filename and the output paths of get_results.                   *)
(***************************************************************************)
Extensions == {".tsv", ".TSV", ".txt"}

\* str.lower() of a chunk
lower(chunk) ==
    CASE chunk = "TEAM" -> "team"
      [] chunk = ".TSV" -> ".tsv"
      [] OTHER -> chunk

\* The index of the chunk that starts pathlib's suffix, 0 when there is none.
SuffixAt(name) ==
    LET at == {i \in 2..Len(name) : name[i] \in Extensions}
    IN  IF at = {} THEN 0 ELSE CHOOSE i \in at : \A j \in at : j <= i

stem(name) == IF SuffixAt(name) = 0 THEN name ELSE SubSeq(name, 1, SuffixAt(name) - 1)
suffix_(name) ==
    IF SuffixAt(name) = 0 THEN "" ELSE Join(SubSeq(name, SuffixAt(name), Len(name)))

\* str.split("_") of a sequence of chunks
RECURSIVE split(_)
split(chunks) ==
    IF \A i \in 1..Len(chunks) : chunks[i] # "_"
    THEN <<chunks>>
    ELSE LET at == CHOOSE i \in 1..Len(chunks) :
                       chunks[i] = "_" /\ \A j \in 1..(i - 1) : chunks[j] # "_"
         IN  <<SubSeq(chunks, 1, at - 1)>> \o split(SubSeq(chunks, at + 1, Len(chunks)))

\* int(bundle.lstrip("bundle"))
BundleId(field) ==
    CASE field = "bundle1" -> Ok(1)
      [] field = "bundle5" -> Ok(5)
      [] field = "bundle9" -> Ok(9)
      [] OTHER -> Raise("ValueError")

enforce_filename(fname) ==
    LET f_obj == [i \in 1..Len(fname) |-> lower(fname[i])]
        fields == split(stem(f_obj))
    IN  IF Len(fields) # 4 THEN Raise("AssertionError")
        ELSE IF ~BundleId(Join(fields[2])).ok THEN Raise("AssertionError")
        ELSE IF suffix_(f_obj) # ".tsv" THEN Raise("AssertionError")
        ELSE IF Join(fields[3]) \notin {"de", "fr", "en"} THEN Raise("AssertionError")
        ELSE IF BundleId(Join(fields[2])).v \notin 1..5 THEN Raise("AssertionError")
        ELSE Ok(Join(stem(f_obj)))

\* name.replace(".tsv", new)
replace_tsv(name, new) ==
    Join([i \in 1..Len(name) |-> IF name[i] = ".tsv" THEN new ELSE name[i]])

\* str(pathlib.Path(outdir) / name)
PathOf(outdir, name) == IF outdir = "." THEN name ELSE outdir \o "/" \o name

OutSuffix(suffix) == IF suffix # "" THEN "_" \o suffix ELSE suffix

f_tsv(a) ==
    PathOf(a.outdir, replace_tsv(a.f_pred, "_" \o a.task \o OutSuffix(a.suffix) \o ".tsv"))

f_json(a) ==
    PathOf(a.outdir, replace_tsv(a.f_pred, "_" \o a.task \o OutSuffix(a.suffix) \o ".json"))

(***************************************************************************)
(* One iteration of the loops of get_results.                              *)
(***************************************************************************)
UserPrefix(suffix) == IF suffix # "" THEN suffix \o "-" ELSE ""

\* The label with the noise component before the time component.
nerc_eval_suffix_noise_first(suffix, noise_level, time_period) ==
    UserPrefix(suffix) \o define_noise_label(noise_level)
        \o "-" \o define_time_label(time_period)

nerc_eval_suffix(suffix, noise_level, time_period) ==
    UserPrefix(suffix) \o define_time_label(time_period)
        \o "-" \o define_noise_label(noise_level)

nel_eval_suffix(suffix, n, noise_level, time_period, union) ==
    (IF union THEN "union_lit_meto-" ELSE "")
        \o UserPrefix(suffix) \o define_time_label(time_period)
        \o "-" \o define_noise_label(noise_level) \o "-@" \o FormatInt(n)

Columns(task) ==
    CASE task = "nerc_fine" -> FINE_COLUMNS
      [] task = "nerc_coarse" -> COARSE_COLUMNS
      [] task = "nel" -> {NEL_COLUMNS[i] : i \in 1..Len(NEL_COLUMNS)}

\* The strata of the run, as (n, noise_level, time_period); a NERC run
\* evaluates with the default n_best=1 of evaluation_wrapper.
Strata(task, n_best, noise_levels, time_periods) ==
    IF task = "nel"
    THEN Product3(n_best, noise_levels, time_periods)
    ELSE Product3(<<1>>, noise_levels, time_periods)

\* An accumulation that keeps the rows of the latest combination only.
AccumulateLatest(all_rows, rows_temp) == rows_temp

\* rows += rows_temp
Accumulate(all_rows, rows_temp) == all_rows \o rows_temp

\* The body of the loop for one stratum: the bundle and the rows, or the error.
Iteration(profile, a, submission, stratum, call) ==
    LET nel == a.task = "nel"
        stats == evaluation_wrapper(profile, Columns(a.task), nel /\ a.union,
                                    IF nel THEN "nel" ELSE "nerc",
                                    stratum[1], stratum[2], stratum[3], call)
        eval_suffix ==
            IF nel
            THEN nel_eval_suffix(a.suffix, stratum[1], stratum[2], stratum[3], a.union)
            ELSE nerc_eval_suffix(a.suffix, stratum[2], stratum[3])
        out == assemble_tsv_output(submission, stats.v,
                                   IF nel THEN <<"fuzzy">> ELSE <<"fuzzy", "strict">>,
                                   nel, eval_suffix)
    IN  IF ~stats.ok THEN stats
        ELSE IF ~out.ok THEN out
        ELSE Ok([eval_stats |-> stats.v, fieldnames |-> out.v.fieldnames,
                 rows |-> out.v.rows, eval_suffix |-> eval_suffix])

(***************************************************************************)
(* The command lines explored.                                             *)
(***************************************************************************)
Tasks == {"nerc_fine", "nerc_coarse", "nel"}

NBestArgs == {None, <<"1", "3">>, <<"1", "1">>, <<"x">>}

NoiseArgs ==
    {None,
     <<<<"0.0", "0.1">>, <<"0.1", "1.0">>>>,
     <<<<"0.0", "0.1">>, <<"0.0", "0.10">>>>,
     <<<<"0.0", "0.1", "0.5">>>>,
     <<<<"0.0", "high">>>>}

TimeArgs ==
    {None,
     <<<<"1900", "1950">>>>,
     <<<<"1900/01/01", "1900/06/30">>, <<"1900/07/01", "1900/12/31">>>>,
     <<<<"1900", "1950", "2000">>>>,
     <<<<"1900">>>>,
     <<<<"1900", "1900/12/31">>>>}

\* The prediction file, the filename check, the user suffix and the output
\* directory of an invocation.
Outputs ==
    {[f_pred |-> <<"team", "_", "bundle1", "_", "de", "_", "1", ".tsv">>,
      skip_check |-> FALSE, suffix |-> "", outdir |-> "."],
     [f_pred |-> <<"team", "_", "bundle1", "_", "de", "_", "1", ".tsv">>,
      skip_check |-> FALSE, suffix |-> "run1", outdir |-> "out"],
     [f_pred |-> <<"TEAM", "_", "bundle1", "_", "de", "_", "1", ".TSV">>,
      skip_check |-> FALSE, suffix |-> "", outdir |-> "out"],
     [f_pred |-> <<"my", ".tsv", "_", "bundle1", "_", "de", "_", "1", ".tsv">>,
      skip_check |-> FALSE, suffix |-> "run1", outdir |-> "."],
     [f_pred |-> <<"pred", ".txt">>,
      skip_check |-> FALSE, suffix |-> "", outdir |-> "."],
     [f_pred |-> <<"pred", ".txt">>,
      skip_check |-> TRUE, suffix |-> "", outdir |-> "."],
     [f_pred |-> <<"pred", ".txt">>,
      skip_check |-> TRUE, suffix |-> "run1", outdir |-> "out"]}

Args ==
    {[task |-> t, union |-> u, n_best |-> n, noise_level |-> l, time_period |-> p,
      f_pred |-> o.f_pred, skip_check |-> o.skip_check, suffix |-> o.suffix,
      outdir |-> o.outdir] :
        t \in Tasks, u \in BOOLEAN, n \in NBestArgs, l \in NoiseArgs, p \in TimeArgs,
        o \in Outputs}

(***************************************************************************)
(* The run of main().                                                      *)
(***************************************************************************)
VARIABLES
    args,          \* the parsed command line
    evaluator,     \* the profile of the collaborator
    pc,            \* where main() is
    err,           \* the exception that ended the run, "" when none
    n_best, noise_levels, time_periods,   \* the lists main() passes on
    submission,    \* the System field
    evalLog,       \* the calls of evaluation_wrapper made so far
    rows, eval_stats, fieldnames,         \* the locals of get_results
    disk,          \* path -> content of the files
    writes         \* the files written, in order, each with what was written

vars == <<args, evaluator, pc, err, n_best, noise_levels, time_periods, submission,
          evalLog, rows, eval_stats, fieldnames, disk, writes>>

Init ==
    /\ args \in Args
    /\ evaluator \in Profiles
    /\ pc = "check"
    /\ err = ""
    /\ n_best = None
    /\ noise_levels = None
    /\ time_periods = None
    /\ submission = ""
    /\ evalLog = <<>>
    /\ rows = <<>>
    /\ eval_stats = None
    /\ fieldnames = None
    /\ disk = [p \in {Join(args.f_pred)} |-> [kind |-> "prediction"]]
    /\ writes = <<>>

\* try: check_validity_of_arguments(args) except: print(e); sys.exit(1)
CheckValidity ==
    /\ pc = "check"
    /\ IF check_validity_of_arguments(args).ok
       THEN pc' = "n_best" /\ err' = err
       ELSE pc' = "exit" /\ err' = check_validity_of_arguments(args).err
    /\ UNCHANGED <<args, evaluator, n_best, noise_levels, time_periods, submission,
                   evalLog, rows, eval_stats, fieldnames, disk, writes>>

ParseNBestStep ==
    /\ pc = "n_best"
    /\ IF ParseNBest(args.n_best).ok
       THEN pc' = "noise" /\ err' = err /\ n_best' = ParseNBest(args.n_best).v
       ELSE pc' = "crashed" /\ err' = ParseNBest(args.n_best).err /\ n_best' = n_best
    /\ UNCHANGED <<args, evaluator, noise_levels, time_periods, submission,
                   evalLog, rows, eval_stats, fieldnames, disk, writes>>

ParseNoiseStep ==
    /\ pc = "noise"
    /\ IF ParseNoiseLevels(args.noise_level).ok
       THEN /\ pc' = "time" /\ err' = err
            /\ noise_levels' = ParseNoiseLevels(args.noise_level).v
       ELSE /\ pc' = "crashed" /\ err' = ParseNoiseLevels(args.noise_level).err
            /\ noise_levels' = noise_levels
    /\ UNCHANGED <<args, evaluator, n_best, time_periods, submission,
                   evalLog, rows, eval_stats, fieldnames, disk, writes>>

ParseTimeStep ==
    /\ pc = "time"
    /\ IF ParseTimePeriods(args.time_period).ok
       THEN /\ pc' = "get_results" /\ err' = err
            /\ time_periods' = ParseTimePeriods(args.time_period).v
       ELSE /\ pc' = "crashed" /\ err' = ParseTimePeriods(args.time_period).err
            /\ time_periods' = time_periods
    /\ UNCHANGED <<args, evaluator, n_best, noise_levels, submission,
                   evalLog, rows, eval_stats, fieldnames, disk, writes>>

\* get_results up to its loop; main() catches its AssertionError and returns.
EnterGetResults ==
    /\ pc = "get_results"
    /\ IF args.skip_check
       THEN pc' = "loop" /\ err' = err /\ submission' = Join(args.f_pred)
       ELSE IF enforce_filename(args.f_pred).ok
            THEN /\ pc' = "loop" /\ err' = err
                 /\ submission' = enforce_filename(args.f_pred).v
            ELSE /\ pc' = "returned" /\ err' = enforce_filename(args.f_pred).err
                 /\ submission' = submission
    /\ UNCHANGED <<args, evaluator, n_best, noise_levels, time_periods,
                   evalLog, rows, eval_stats, fieldnames, disk, writes>>

\* One iteration of the loop over itertools.product(...).
EvaluateStratum ==
    /\ pc = "loop"
    /\ LET strata == Strata(args.task, n_best, noise_levels, time_periods)
           call == Len(evalLog) + 1
           stratum == strata[call]
       IN  \E it \in {Iteration(evaluator, args, submission, stratum, call)} :
           /\ evalLog' = Append(evalLog,
                   [n_best |-> stratum[1], noise_level |-> stratum[2],
                    time_period |-> stratum[3], returned |-> it.ok,
                    eval_suffix |-> IF it.ok THEN it.v.eval_suffix ELSE "",
                    nrows |-> IF it.ok THEN Len(it.v.rows) ELSE 0])
           /\ IF it.ok
              THEN /\ rows' = Accumulate(rows, it.v.rows)
                   /\ eval_stats' = it.v.eval_stats
                   /\ fieldnames' = it.v.fieldnames
                   /\ err' = err
                   /\ pc' = IF call = Len(strata) THEN "write_tsv" ELSE "loop"
              ELSE /\ pc' = "crashed" /\ err' = it.err
                   /\ UNCHANGED <<rows, eval_stats, fieldnames>>
    /\ UNCHANGED <<args, evaluator, n_best, noise_levels, time_periods, submission,
                   disk, writes>>

Write(path, content) ==
    /\ disk' = [p \in DOMAIN disk \cup {path} |-> IF p = path THEN content ELSE disk[p]]
    /\ writes' = Append(writes, [path |-> path, content |-> content])

\* writer.writeheader(); writer.writerows(rows)
TsvContent(header, body) == [kind |-> "tsv", header |-> header, rows |-> body]

\* json.dump(eval_stats, jsonfile, indent=4)
JsonContent(stats) == [kind |-> "json", doc |-> stats]

\* with open(f_tsv, "w"): writeheader(); writerows(rows)
WriteTsv ==
    /\ pc = "write_tsv"
    /\ Write(f_tsv(args), TsvContent(fieldnames, rows))
    /\ pc' = "write_json"
    /\ UNCHANGED <<args, evaluator, err, n_best, noise_levels, time_periods, submission,
                   evalLog, rows, eval_stats, fieldnames>>

\* with open(f_json, "w"): json.dump(eval_stats, ...)
WriteJson ==
    /\ pc = "write_json"
    /\ Write(f_json(args), JsonContent(eval_stats))
    /\ pc' = "done"
    /\ UNCHANGED <<args, evaluator, err, n_best, noise_levels, time_periods, submission,
                   evalLog, rows, eval_stats, fieldnames>>

Next ==
    \/ CheckValidity
    \/ ParseNBestStep
    \/ ParseNoiseStep
    \/ ParseTimeStep
    \/ EnterGetResults
    \/ EvaluateStratum
    \/ WriteTsv
    \/ WriteJson

Spec == Init /\ [][Next]_vars

(***************************************************************************)
(* What the claims speak about.                                            *)
(***************************************************************************)
EvalType == IF args.task = "nel" THEN "nel" ELSE "nerc"
Regimes == IF args.task = "nel" THEN {"fuzzy"} ELSE {"fuzzy", "strict"}
RegimeKey(regime) == IF regime = "fuzzy" THEN "ent_type" ELSE regime

LastCall == evalLog[Len(evalLog)]

RECURSIVE RowsBefore(_)
RowsBefore(i) == IF i <= 1 THEN 0 ELSE RowsBefore(i - 1) + evalLog[i - 1].nrows

\* The rows the i-th call of the loop added.
Block(i) == SubSeq(rows, RowsBefore(i) + 1, RowsBefore(i) + evalLog[i].nrows)

\* What the collaborator returned to the i-th call for a column.
Returned(i, col) ==
    Evaluate(evaluator, col, EvalType, evalLog[i].n_best, evalLog[i].noise_level,
             evalLog[i].time_period)

EvaluationOf(col, aggr, regime, eval_suffix) ==
    PyStr(col \o "-" \o aggr \o "-" \o regime \o "-" \o eval_suffix)

LabelOf(tag) == PyStr(tag)

(***************************************************************************)
(* C1: after every call of evaluation_wrapper that returns, the map of     *)
(* every column has an "ALL" entry that is the column-global bundle the    *)
(* collaborator returned for that column and stratum, for every regime and *)
(* metric; the ALL rows of the micro groups carry the global TP and FP,    *)
(* also where the TP or FP of the tags add up to another number.           *)
(***************************************************************************)
C1_AllIsGlobal ==
    (evalLog # <<>> /\ LastCall.returned) =>
        /\ DOMAIN eval_stats = Columns(args.task)
        /\ \A col \in Columns(args.task) :
            LET res == Returned(Len(evalLog), col)
                block == Block(Len(evalLog))
            IN  /\ DOMAIN eval_stats[col] = DOMAIN res.per_tag \cup {"ALL"}
                /\ eval_stats[col]["ALL"] = res.global
                /\ \A regime \in Regimes :
                    LET at == {i \in 1..Len(block) :
                                /\ block[i]["Evaluation"]
                                     = EvaluationOf(col, "micro", regime, LastCall.eval_suffix)
                                /\ block[i]["Label"] = LabelOf("ALL")}
                    IN  /\ at # {}
                        /\ \A i \in at : \A fig \in {"TP", "FP"} :
                            LET sum == TagSum(DOMAIN res.per_tag, res.per_tag,
                                              RegimeKey(regime), fig)
                            IN  /\ block[i][fig] = res.global[RegimeKey(regime)][fig]
                                /\ sum # res.global[RegimeKey(regime)][fig].v
                                     => block[i][fig].v # sum

\* A finished NERC run whose last bundle has tags that add up to more or less
\* than the column's own count.
C1_Witness ==
    /\ pc = "done"
    /\ args.task = "nerc_coarse"
    /\ \E col \in DOMAIN eval_stats :
        LET res == Returned(Len(evalLog), col)
        IN  /\ eval_stats[col]["ALL"] = res.global
            /\ TagSum(DOMAIN res.per_tag, res.per_tag, "strict", "TP")
                 # res.global["strict"]["TP"].v

(***************************************************************************)
(* C2: no two rows of the accumulated row list share the same              *)
(* (Evaluation, Label) pair.                                               *)
(***************************************************************************)
C2_UniqueRows ==
    \A i, j \in 1..Len(rows) :
        i < j => \/ rows[i]["Evaluation"] # rows[j]["Evaluation"]
                 \/ rows[i]["Label"] # rows[j]["Label"]

(***************************************************************************)
(* C3: the stratum label of every evaluated combination.  The components   *)
(* as the labels name them:                                                *)
(***************************************************************************)
NoiseComponent(noise_level) ==
    CASE noise_level = None -> "LED-ALL"
      [] noise_level = <<0, 1>> -> "LED-0.0-0.1"
      [] noise_level = <<1, 10>> -> "LED-0.1-1.0"

TimeComponent(time_period) ==
    CASE time_period = None -> "TIME-ALL"
      [] time_period # None /\ time_period[1].year = 1900 /\ time_period[2].year = 1950
            -> "TIME-1900-1950"
      [] time_period # None /\ time_period[1].year = 1900 /\ time_period[2].year = 1900
            -> "TIME-1900-1900"

Cutoff(n) == IF args.task = "nel" THEN (IF n = 1 THEN "-@1" ELSE "-@3") ELSE ""

UserComponent == IF args.suffix = "" THEN "" ELSE args.suffix \o "-"

SameStratum(i, j) ==
    /\ evalLog[i].n_best = evalLog[j].n_best
    /\ evalLog[i].noise_level = evalLog[j].noise_level
    /\ evalLog[i].time_period = evalLog[j].time_period

\* C3 as claimed: the label is the noise component, then the time component,
\* then the cutoff for NEL.
C3_NoiseThenTime ==
    \A i \in 1..Len(evalLog) :
        evalLog[i].returned =>
            evalLog[i].eval_suffix =
                UserComponent \o NoiseComponent(evalLog[i].noise_level) \o "-"
                    \o TimeComponent(evalLog[i].time_period) \o Cutoff(evalLog[i].n_best)

\* C3 as amended: after the user's suffix, the label is the time component
\* (TIME-...), then the noise component (LED-...), then for NEL the cutoff
\* "-@n"; every row of the combination carries it, and the same combination
\* always yields the same label.
C3_TimeThenNoise ==
    \A i \in 1..Len(evalLog) :
        evalLog[i].returned =>
            /\ evalLog[i].eval_suffix =
                UserComponent \o TimeComponent(evalLog[i].time_period) \o "-"
                    \o NoiseComponent(evalLog[i].noise_level) \o Cutoff(evalLog[i].n_best)
            /\ \A k \in 1..Len(Block(i)) :
                Block(i)[k]["Evaluation"] \in
                    {EvaluationOf(col, aggr, regime, evalLog[i].eval_suffix) :
                        col \in Columns(args.task), aggr \in {"micro", "macro_doc"},
                        regime \in Regimes}
            /\ \A j \in 1..Len(evalLog) :
                (evalLog[j].returned /\ SameStratum(i, j))
                    => evalLog[j].eval_suffix = evalLog[i].eval_suffix

\* A NEL combination filtered on both axes has been labelled.
C3_Witness ==
    /\ args.task = "nel"
    /\ \E i \in 1..Len(evalLog) :
        /\ evalLog[i].returned
        /\ evalLog[i].noise_level # None
        /\ evalLog[i].time_period # None
        /\ evalLog[i].n_best = 3

(***************************************************************************)
(* C4: a run that began evaluating ends with both files completely written *)
(* or with neither; nothing is written before the last combination has     *)
(* been evaluated and assembled, each file is written once, and a failed   *)
(* combination leaves no output file.                                      *)
(***************************************************************************)
InitialDisk == [p \in {Join(args.f_pred)} |-> [kind |-> "prediction"]]

C4_AtomicOutputs ==
    /\ pc \notin {"write_json", "done"} => writes = <<>> /\ disk = InitialDisk
    /\ pc \in {"write_tsv", "write_json", "done"} =>
        /\ Len(evalLog) = Len(Strata(args.task, n_best, noise_levels, time_periods))
        /\ \A i \in 1..Len(evalLog) : evalLog[i].returned
    /\ pc = "done" =>
        /\ Len(writes) = 2
        /\ writes[1].path # writes[2].path
        /\ disk[f_tsv(args)] = TsvContent(fieldnames, rows)
        /\ disk[f_json(args)] = JsonContent(eval_stats)

(***************************************************************************)
(* C5: after a successful run over k >= 1 combinations the JSON document   *)
(* written is the bundle, with its ALL entries, of the last combination    *)
(* and of no earlier different one, and the rows written to the TSV are    *)
(* the rows of all k combinations in enumeration order.                    *)
(***************************************************************************)
BundleOf(i) ==
    [col \in Columns(args.task) |->
        [tag \in DOMAIN Returned(i, col).per_tag \cup {"ALL"} |->
            IF tag = "ALL" THEN Returned(i, col).global ELSE Returned(i, col).per_tag[tag]]]

GroupLabels(i) ==
    {EvaluationOf(col, aggr, regime, evalLog[i].eval_suffix) :
        col \in Columns(args.task), aggr \in {"micro", "macro_doc"}, regime \in Regimes}

C5_LastBundleAllRows ==
    pc = "done" =>
        LET k == Len(evalLog)
            tsv == writes[1].content
            json == writes[2].content
        IN  /\ k >= 1
            /\ k = Len(Strata(args.task, n_best, noise_levels, time_periods))
            /\ Len(writes) = 2
            /\ json = JsonContent(BundleOf(k))
            /\ \A i \in 1..(k - 1) :
                ~SameStratum(i, k) =>
                    \A col \in Columns(args.task) : \A tag \in DOMAIN BundleOf(i)[col] :
                        json.doc[col][tag] # BundleOf(i)[col][tag]
            /\ tsv.kind = "tsv"
            /\ tsv.header = fieldnames_
            /\ Len(tsv.rows) = RowsBefore(k + 1)
            /\ \A i \in 1..k :
                /\ evalLog[i].nrows > 0
                /\ \A r \in 1..evalLog[i].nrows :
                    tsv.rows[RowsBefore(i) + r]["Evaluation"] \in GroupLabels(i)

\* A finished run over several different combinations.
C5_Witness ==
    /\ pc = "done"
    /\ Len(evalLog) >= 4
    /\ ~SameStratum(1, Len(evalLog))
    /\ writes[2].content.doc = BundleOf(Len(evalLog))

(***************************************************************************)
(* C6: a configuration error or a malformed noise-level or time-period     *)
(* specification aborts the invocation before any evaluation is made and   *)
(* before any report is written.                                           *)
(***************************************************************************)
FloatTexts == {"0.0", "0.1", "0.10", "0.5", "1.0"}
YearTexts == {"1900", "1950", "2000"}
DateTexts == {"1900/01/01", "1900/06/30", "1900/07/01", "1900/12/31"}

ConfigurationError ==
    \/ args.union /\ args.n_best # None
    \/ (args.union \/ args.n_best # None) /\ args.task # "nel"

\* lower-upper pairs of floats.
WellFormedNoise(spec) ==
    \A i \in 1..Len(spec) :
        Len(spec[i]) = 2 /\ spec[i][1] \in FloatTexts /\ spec[i][2] \in FloatTexts

\* start-end pairs, all of years or all of dates.
WellFormedTime(spec) ==
    \/ \A i \in 1..Len(spec) :
        Len(spec[i]) = 2 /\ spec[i][1] \in YearTexts /\ spec[i][2] \in YearTexts
    \/ \A i \in 1..Len(spec) :
        Len(spec[i]) = 2 /\ spec[i][1] \in DateTexts /\ spec[i][2] \in DateTexts

BadInvocation ==
    \/ ConfigurationError
    \/ ~WellFormedNoise(args.noise_level)
    \/ ~WellFormedTime(args.time_period)

C6_BadInvocationAborts ==
    BadInvocation =>
        /\ evalLog = <<>>
        /\ writes = <<>>
        /\ pc \notin {"loop", "write_tsv", "write_json", "done"}

(***************************************************************************)
(* C7: for every accepted prediction file name the TSV goes to             *)
(* <stem>_<task>[_<suffix>].tsv and the JSON to <stem>_<task>[_<suffix>]   *)
(* .json in the output directory, two paths that differ from each other    *)
(* and from the prediction file's name.                                    *)
(***************************************************************************)
ReportBase ==
    Join(stem(args.f_pred)) \o "_" \o args.task
        \o (IF args.suffix = "" THEN "" ELSE "_" \o args.suffix)

C7_OutputPaths ==
    pc = "done" =>
        /\ writes[1].path = PathOf(args.outdir, ReportBase \o ".tsv")
        /\ writes[2].path = PathOf(args.outdir, ReportBase \o ".json")
        /\ writes[1].path # writes[2].path
        /\ writes[1].path # Join(args.f_pred)
        /\ writes[2].path # Join(args.f_pred)

(***************************************************************************)
(* C8: the rows of a stratified run that carry the unfiltered labels       *)
(* (TIME-ALL and LED-ALL) are, row for row and field for field, the rows   *)
(* of the run on the same inputs without noise-level and time-period       *)
(* specification.                                                          *)
(***************************************************************************)
UnfilteredLabels ==
    {EvaluationOf(col, aggr, regime, UserComponent \o "TIME-ALL-LED-ALL" \o Cutoff(n)) :
        col \in Columns(args.task), aggr \in {"micro", "macro_doc"},
        regime \in Regimes, n \in {1, 3}}

\* The rows of the run with noise_levels = time_periods = [None].
PlainRows ==
    LET strata == Strata(args.task, n_best, <<None>>, <<None>>)
    IN  Flatten([i \in 1..Len(strata) |->
            Iteration(evaluator, args, submission, strata[i], i).v.rows])

C8_UnfilteredEqualsPlain ==
    pc = "done" =>
        SelectSeq(rows, LAMBDA row : row["Evaluation"] \in UnfilteredLabels) = PlainRows

\* A finished run stratified on both axes.
C8_Witness ==
    /\ pc = "done"
    /\ args.noise_level # None
    /\ args.time_period # None
    /\ Len(PlainRows) > 0
    /\ Len(rows) > Len(PlainRows)

(***************************************************************************)
(* C9: a NERC run with k noise bands and m time periods evaluates          *)
(* (k+1)*(m+1) combinations in product order, the unfiltered sentinel      *)
(* first on each axis; each combination emits, per column, aggregation     *)
(* and regime, one label group with one row per tag of the column's bundle *)
(* plus one ALL row.  The noise spec "0.0-0.1,0.1-1.0" with nerc_coarse    *)
(* gives the strata LED-ALL, LED-0.0-0.1, LED-0.1-1.0 and 24 label groups. *)
(***************************************************************************)
Scenario ==
    /\ args.task = "nerc_coarse"
    /\ args.noise_level = <<<<"0.0", "0.1">>, <<"0.1", "1.0">>>>
    /\ args.time_period = None

C9_StrataAndGroups ==
    (args.task # "nel" /\ pc \in {"write_tsv", "write_json", "done"}) =>
        LET k == Len(args.noise_level)
            m == Len(args.time_period)
        IN  /\ Len(evalLog) = (k + 1) * (m + 1)
            /\ \A i \in 0..k, j \in 0..m :
                LET call == evalLog[i * (m + 1) + j + 1]
                IN  /\ (call.noise_level = None) <=> (i = 0)
                    /\ (call.time_period = None) <=> (j = 0)
                    /\ i > 0 => call.noise_level = noise_levels[i + 1]
                    /\ j > 0 => call.time_period = time_periods[j + 1]
            /\ \A c \in 1..Len(evalLog) :
                /\ evalLog[c].nrows
                     = Cardinality(Columns(args.task)) * 2 * 2
                         * (Cardinality(EntityTags("nerc")) + 1)
                /\ \A col \in Columns(args.task), aggr \in {"micro", "macro_doc"},
                      regime \in {"fuzzy", "strict"} :
                    LET group == SelectSeq(Block(c), LAMBDA row :
                                    row["Evaluation"]
                                        = EvaluationOf(col, aggr, regime, evalLog[c].eval_suffix))
                        tags == DOMAIN Returned(c, col).per_tag
                    IN  /\ Len(group) = Cardinality(tags) + 1
                        /\ {group[r]["Label"] : r \in 1..Len(group)}
                             = {LabelOf(tag) : tag \in tags \cup {"ALL"}}
            /\ Scenario =>
                /\ [c \in 1..Len(evalLog) |-> evalLog[c].noise_level]
                     = <<None, <<0, 1>>, <<1, 10>>>>
                /\ Cardinality({rows[r]["Evaluation"] : r \in 1..Len(rows)}) = 24

C9_Witness == pc = "done" /\ Scenario /\ Len(evalLog) = 3

(***************************************************************************)
(* C10: where the bundle holds the empty marker for a metric a row needs,  *)
(* assemble_tsv_output still emits the row, with the marker in that field  *)
(* and every numeric field of the row rounded to 3 decimal places.         *)
(***************************************************************************)
FieldsOf(aggr) ==
    IF aggr = "micro"
    THEN {"P", "R", "F1", "TP", "FP", "FN"}
    ELSE {"P", "R", "F1", "P_std", "R_std", "F1_std"}

KeyOf(field, aggr) ==
    CASE field \in {"TP", "FP", "FN"} -> field
      [] field = "P" -> IF aggr = "micro" THEN "P_micro" ELSE "P_macro_doc"
      [] field = "R" -> IF aggr = "micro" THEN "R_micro" ELSE "R_macro_doc"
      [] field = "F1" -> IF aggr = "micro" THEN "F1_micro" ELSE "F1_macro_doc"
      [] field = "P_std" -> "P_macro_doc_std"
      [] field = "R_std" -> "R_macro_doc_std"
      [] field = "F1_std" -> "F1_macro_doc_std"

Rounded3(value, raw) ==
    /\ value.t = "float"
    /\ value.v % 10 = 0
    /\ value.v - raw.v \in -5..5

C10_EmptyKeptOthersRounded ==
    (evalLog # <<>> /\ LastCall.returned) =>
        \A col \in DOMAIN eval_stats, aggr \in {"micro", "macro_doc"}, regime \in Regimes :
            \A tag \in (IF args.task = "nel" THEN {"ALL"} ELSE DOMAIN eval_stats[col]) :
                LET block == Block(Len(evalLog))
                    at == {i \in 1..Len(block) :
                            /\ block[i]["Evaluation"]
                                 = EvaluationOf(col, aggr, regime, LastCall.eval_suffix)
                            /\ block[i]["Label"] = LabelOf(tag)}
                IN  /\ Cardinality(at) = 1
                    /\ \A i \in at :
                        /\ DOMAIN block[i] = {"System", "Evaluation", "Label"} \cup FieldsOf(aggr)
                        /\ block[i]["System"] = PyStr(submission)
                        /\ \A field \in FieldsOf(aggr) :
                            LET raw == eval_stats[col][tag][RegimeKey(regime)][KeyOf(field, aggr)]
                            IN  CASE raw = Empty -> block[i][field] = Empty
                                  [] raw.t = "float" -> Rounded3(block[i][field], raw)
                                  [] OTHER -> block[i][field] = raw

\* A finished run whose report has a row with the empty marker next to a
\* value that rounding changed.
C10_Witness ==
    /\ pc = "done"
    /\ evaluator.gap = "empty"
    /\ \E i \in 1..Len(rows) :
        /\ \E field \in DOMAIN rows[i] : rows[i][field] = Empty
        /\ \E col \in DOMAIN eval_stats, tag \in {"ALL", "loc", "pers"},
              regime \in Regimes, key \in MetricKeys :
            /\ rows[i]["Label"] = LabelOf(tag)
            /\ eval_stats[col][tag][RegimeKey(regime)][key].t = "float"
            /\ eval_stats[col][tag][RegimeKey(regime)][key].v % 10 # 0

=============================================================================
